---- MODULE Spec2Model ----
(***************************************************************************)
(* Model of the swgoh-portraits HTTP service (main.go): the /create        *)
(* handler, its query-parameter validation, the portrait builder's layer   *)
(* sequence and the PNG response.                                          *)
(*                                                                         *)
(* Strings that are parsed or formatted (query values, numbers) are        *)
(* sequences of one-character strings, so that strconv.Atoi and            *)
(* strconv.Itoa are computed rather than assumed.                          *)
(***************************************************************************)
EXTENDS Integers, Sequences, FiniteSets, TLC

VARIABLES
    pc,          \* position of the handler goroutine
    req,         \* the request: method and the first value of each query key
    charID,      \* query.Get("char")
    char,        \* the catalog entry found (NoChar before/without a lookup hit)
    gearLevel, relicLevel, zetas, omicrons,   \* the handler's locals
    portrait,    \* the CharacterPortrait handed to buildPortrait, or NoPortrait
    buildErr,    \* error returned by buildPortrait, NoErr if none
    encErr,      \* TRUE once png.Encode has returned an error
    encPos,      \* index of the next PNG chunk png.Encode writes
    ops,         \* buildPortrait's asset loads and canvas draws, in order
    status,      \* response status line sent (0: none yet)
    contentType, \* Content-Type header in effect when the header was sent / set
    body         \* what has been written to the response body, in order

vars == <<pc, req, charID, char, gearLevel, relicLevel, zetas, omicrons,
          portrait, buildErr, encErr, encPos, ops, status, contentType, body>>

----------------------------------------------------------------------------
(* Bounds and input sets *)

\* image widths and heights range over CanvasSize-MaxDelta .. CanvasSize+MaxDelta
MaxDelta == 1

CanvasSize == 200

Absent == <<"<absent>">>

NoChar == [Name |-> "", Affiliation |-> "", imgSrc |-> "", maxZetas |-> 0, maxOmicrons |-> 0]

NoPortrait == [Character |-> "", GearLevel |-> 0, RelicLevel |-> 0, Zetas |-> 0, Omicrons |-> 0, set |-> FALSE]

NoErr == <<>>

supportedCharacters ==
    [c \in {"darth_vader"} |->
        [Name |-> "Darth Vader", Affiliation |-> "dark_side", imgSrc |-> "darth_vader.png",
         maxZetas |-> 3, maxOmicrons |-> 1]]

Methods == {"GET", "POST"}

AbsentChar == "<absent>"

CharValues == {AbsentChar, "darth_vader", "luke_skywalker"}

GearValues  == {Absent, <<>>, <<"x">>, <<"0">>, <<"1">>, <<"1","3">>, <<"1","4">>, <<"-","1">>}
RelicValues == {Absent, <<>>, <<"x">>, <<"0">>, <<"1">>, <<"+","9">>, <<"1","0">>, <<"-","1">>}
ZetaValues  == {Absent, <<>>, <<"1","x">>, <<"0">>, <<"3">>, <<"4">>, <<"-","1">>}
OmicronValues == {Absent, <<>>, <<"x">>, <<"0">>, <<"0","1">>, <<"2">>, <<"-","1">>}

Requests ==
    [method : Methods, char : CharValues, gear_level : GearValues,
     relic_level : RelicValues, zetas : ZetaValues, omicrons : OmicronValues]

NoRequest == [method |-> "", char |-> AbsentChar, gear_level |-> Absent,
              relic_level |-> Absent, zetas |-> Absent, omicrons |-> Absent]

Dims == (CanvasSize - MaxDelta)..(CanvasSize + MaxDelta)

ImgSizes == Dims \X Dims

----------------------------------------------------------------------------
(* strconv *)

Digits == <<"0", "1", "2", "3", "4", "5", "6", "7", "8", "9">>

IsDigit(c) == c \in {Digits[d] : d \in 1..10}

DigitVal(c) == (CHOOSE d \in 1..10 : Digits[d] = c) - 1

RECURSIVE ParseDigits(_, _)
ParseDigits(s, n) ==
    IF s = <<>> THEN n ELSE ParseDigits(Tail(s), n * 10 + DigitVal(Head(s)))

\* strconv.Atoi on a non-empty string: optional sign, then decimal digits only
Atoi(s) ==
    LET signed == s # <<>> /\ s[1] \in {"-", "+"}
        ds     == IF signed THEN Tail(s) ELSE s
        bad    == ds = <<>> \/ \E i \in 1..Len(ds) : ~IsDigit(ds[i])
        n      == IF bad THEN 0 ELSE ParseDigits(ds, 0)
    IN  [val |-> IF bad THEN 0 ELSE IF s[1] = "-" THEN -n ELSE n, err |-> bad]

RECURSIVE UItoa(_)
UItoa(n) ==
    IF n < 10 THEN <<Digits[n + 1]>> ELSE UItoa(n \div 10) \o <<Digits[(n % 10) + 1]>>

Itoa(n) == IF n < 0 THEN <<"-">> \o UItoa(-n) ELSE UItoa(n)

----------------------------------------------------------------------------
(* Go integer arithmetic and the image package *)

\* Go's integer division truncates toward zero
GoDivFlooring(a, b) == a \div b

GoDiv(a, b) ==
    IF a >= 0 THEN a \div b ELSE -((-a) \div b)

PointSub(p, q) == <<p[1] - q[1], p[2] - q[2]>>

PointDiv(p, k) == <<GoDiv(p[1], k), GoDiv(p[2], k)>>

canvasSize == <<CanvasSize, CanvasSize>>

\* offset := canvasSize.Sub(srcSize).Div(2)
PlaceOffset(srcSize) == PointDiv(PointSub(canvasSize, srcSize), 2)

\* offset := image.Pt((destSize.X-srcSize.X)/2, (destSize.Y-srcSize.Y)/2)
CenterOffset(srcSize, destSize) ==
    <<GoDiv(destSize[1] - srcSize[1], 2), GoDiv(destSize[2] - srcSize[2], 2)>>

----------------------------------------------------------------------------
(* net/http: url.Values and ResponseWriter *)

\* query.Get(key): the first value, "" when the key is absent
QueryGet(v) == IF v = AbsentChar THEN "" ELSE v

\* http.Error: sets the text content type, writes the status line, then the
\* message.  Once a status line has been sent (by an earlier Write) the
\* WriteHeader call is superfluous and the headers already sent stay.
HttpError(msg, code) ==
    /\ status' = IF status = 0 THEN code ELSE status
    /\ contentType' = IF status = 0 THEN "text/plain; charset=utf-8" ELSE contentType
    /\ body' = Append(body, [kind |-> "text", msg |-> msg])

\* the writes png.Encode makes to the ResponseWriter, in order
PngChunks == <<"signature", "IHDR", "IDAT", "IEND">>

----------------------------------------------------------------------------
(* createPortraitHandler: validation *)

getIntFromQuery(query, key) ==
    LET valueStr == query[key]
    IN  IF valueStr = Absent \/ Len(valueStr) = 0
        THEN [val |-> 0, err |-> FALSE]
        ELSE Atoi(valueStr)

MethodNotAllowedUnknownOnly(m) == m \notin {"GET", "POST"}

MethodNotAllowed(m) == m # "GET"

\* char, ok := supportedCharacters[charID]: the zero value when the key is missing
LookupIgnoringOk(id) ==
    [ok |-> TRUE,
     char |-> IF id \in DOMAIN supportedCharacters THEN supportedCharacters[id] ELSE NoChar]

Lookup(id) ==
    IF id \in DOMAIN supportedCharacters
    THEN [ok |-> TRUE, char |-> supportedCharacters[id]]
    ELSE [ok |-> FALSE, char |-> NoChar]

GearInvalidZeroAccepted(g, err) == err \/ g < 0 \/ g > 13

GearInvalid(g, err) == err \/ g < 1 \/ g > 13

RelicNotAllowedPositiveOnly(g, r, err) == g # 13 /\ r > 0 /\ ~err

RelicNotAllowed(g, r, err) == g # 13 /\ r # 0 /\ ~err

RelicOutOfRangeZeroAccepted(g, r) == g = 13 /\ (r < 0 \/ r > 9)

RelicOutOfRange(g, r) == g = 13 /\ (r < 1 \/ r > 9)

ZetasInvalidMaxRejected(z, c) == z < 0 \/ z >= c.maxZetas

ZetasInvalid(z, c) == z < 0 \/ z > c.maxZetas

OmicronsInvalid(o, c) == o < 0 \/ o > c.maxOmicrons

Init ==
    /\ pc = "idle"
    /\ req = NoRequest
    /\ charID = ""
    /\ char = NoChar
    /\ gearLevel = 0 /\ relicLevel = 0 /\ zetas = 0 /\ omicrons = 0
    /\ portrait = NoPortrait
    /\ buildErr = NoErr
    /\ encErr = FALSE
    /\ encPos = 1
    /\ ops = <<>>
    /\ status = 0
    /\ contentType = ""
    /\ body = <<>>

\* the server dispatches a request on /create to the handler with a fresh
\* ResponseWriter
ServeHTTP ==
    /\ pc = "idle"
    /\ pc' = "method"
    /\ req' \in Requests
    /\ UNCHANGED <<charID, char, gearLevel, relicLevel, zetas, omicrons, portrait,
                   buildErr, encErr, encPos, ops, status, contentType, body>>

CheckMethod ==
    /\ pc = "method"
    /\ IF MethodNotAllowed(req.method)
       THEN /\ HttpError(<<"Only GET method is allowed">>, 405)
            /\ pc' = "done"
       ELSE /\ pc' = "lookup"
            /\ UNCHANGED <<status, contentType, body>>
    /\ UNCHANGED <<req, charID, char, gearLevel, relicLevel, zetas, omicrons, portrait,
                   buildErr, encErr, encPos, ops>>

LookupCharacter ==
    /\ pc = "lookup"
    /\ charID' = QueryGet(req.char)
    /\ char' = Lookup(charID').char
    /\ IF Lookup(charID').ok
       THEN /\ pc' = "gear"
            /\ UNCHANGED <<status, contentType, body>>
       ELSE /\ HttpError(<<"Character is not supported by this API", charID'>>, 400)
            /\ pc' = "done"
    /\ UNCHANGED <<req, gearLevel, relicLevel, zetas, omicrons, portrait,
                   buildErr, encErr, encPos, ops>>

ParseGearLevel ==
    /\ pc = "gear"
    /\ LET r == getIntFromQuery(req, "gear_level")
       IN  /\ gearLevel' = r.val
           /\ IF GearInvalid(r.val, r.err)
              THEN /\ HttpError(<<"The gear_level must be between 1 and 13">>, 400)
                   /\ pc' = "done"
              ELSE /\ pc' = "relic"
                   /\ UNCHANGED <<status, contentType, body>>
    /\ UNCHANGED <<req, charID, char, relicLevel, zetas, omicrons, portrait,
                   buildErr, encErr, encPos, ops>>

ParseRelicLevel ==
    /\ pc = "relic"
    /\ LET r == getIntFromQuery(req, "relic_level")
       IN  /\ relicLevel' = r.val
           /\ IF RelicNotAllowed(gearLevel, r.val, r.err)
              THEN /\ HttpError(<<"The relic_level should not be provided if gear_level is not 13">>, 400)
                   /\ pc' = "done"
              ELSE IF RelicOutOfRange(gearLevel, r.val)
              THEN /\ HttpError(<<"The relic_level must be between 1 and 9">>, 400)
                   /\ pc' = "done"
              ELSE /\ pc' = "zetas"
                   /\ UNCHANGED <<status, contentType, body>>
    /\ UNCHANGED <<req, charID, char, gearLevel, zetas, omicrons, portrait,
                   buildErr, encErr, encPos, ops>>

ParseZetas ==
    /\ pc = "zetas"
    /\ LET r == getIntFromQuery(req, "zetas")
       IN  /\ zetas' = r.val
           /\ IF ZetasInvalid(r.val, char)
              THEN /\ HttpError(<<"The zeta level must be between 0 and">> \o Itoa(char.maxZetas)
                                   \o <<"for", char.Name>>, 400)
                   /\ pc' = "done"
              ELSE /\ pc' = "omicrons"
                   /\ UNCHANGED <<status, contentType, body>>
    /\ UNCHANGED <<req, charID, char, gearLevel, relicLevel, omicrons, portrait,
                   buildErr, encErr, encPos, ops>>

ParseOmicrons ==
    /\ pc = "omicrons"
    /\ LET r == getIntFromQuery(req, "omicrons")
       IN  /\ omicrons' = r.val
           /\ IF OmicronsInvalid(r.val, char)
              THEN /\ HttpError(<<"The omicron level must be between 0 and">> \o Itoa(char.maxOmicrons)
                                   \o <<"for", char.Name>>, 400)
                   /\ pc' = "done"
              ELSE /\ pc' = "call"
                   /\ UNCHANGED <<status, contentType, body>>
    /\ UNCHANGED <<req, charID, char, gearLevel, relicLevel, zetas, portrait,
                   buildErr, encErr, encPos, ops>>

\* portrait := CharacterPortrait{...}; buildPortrait(portrait, char) is entered
CallBuildPortrait ==
    /\ pc = "call"
    /\ portrait' = [Character |-> charID, GearLevel |-> gearLevel, RelicLevel |-> relicLevel,
                    Zetas |-> zetas, Omicrons |-> omicrons, set |-> TRUE]
    /\ pc' = "fonts"
    /\ UNCHANGED <<req, charID, char, gearLevel, relicLevel, zetas, omicrons,
                   buildErr, encErr, encPos, ops, status, contentType, body>>

----------------------------------------------------------------------------
(* buildPortrait *)

Origin == <<0, 0>>

\* sizes of assets whose dimensions no statement of the program reads
Unsized == <<0, 0>>

FontPath == <<"assets/fonts/Inter-Regular.ttf">>

CharacterPath(c) == <<"assets/characters/", c.imgSrc>>

GearPath(g) == <<"assets/gear/">> \o Itoa(g) \o <<".png">>

RelicPath(c) == <<"assets/relics/", c.Affiliation, ".png">>

LevelBadgePath == <<"assets/badges/level.png">>

ZetaBadgePath == <<"assets/badges/zeta.png">>

OmicronBadgePath == <<"assets/badges/omicron.png">>

zetaBadgePosition == <<18, 100>>

omicronBadgePosition == <<121, 100>>

levelBadgePosition == <<75, 128>>

levelText == <<"8", "5">>

Load(path, size) == [op |-> "load", what |-> path, at |-> Origin, size |-> size]

Draw(path, at, size) == [op |-> "draw", what |-> path, at |-> at, size |-> size]

Text(text) == [op |-> "text", what |-> text, at |-> Origin, size |-> Unsized]

LoadError(path) == <<"open">> \o path

\* return nil, err
BuildFail(err) ==
    /\ buildErr' = err
    /\ pc' = "result"

UsesGearBorder(p) == p.GearLevel < 13

HasZetaBadgeAtZero(p) == p.Zetas >= 0

HasZetaBadge(p) == p.Zetas > 0

HasOmicronBadge(p) == p.Omicrons > 0

\* the two loadFont calls
BuildFonts ==
    /\ pc = "fonts"
    /\ \E okSmall, okLarge \in BOOLEAN :
          IF okSmall /\ okLarge
          THEN /\ pc' = "character"
               /\ ops' = ops \o <<Load(FontPath, Unsized), Load(FontPath, Unsized)>>
               /\ UNCHANGED buildErr
          ELSE /\ BuildFail(LoadError(FontPath))
               /\ ops' = IF okSmall THEN Append(ops, Load(FontPath, Unsized)) ELSE ops
    /\ UNCHANGED <<req, charID, char, gearLevel, relicLevel, zetas, omicrons, portrait,
                   encErr, encPos, status, contentType, body>>

\* loadImage(character) and placeImageOnCanvas
BuildCharacter ==
    /\ pc = "character"
    /\ \/ /\ BuildFail(LoadError(CharacterPath(char)))
          /\ UNCHANGED ops
       \/ \E srcSize \in ImgSizes :
             /\ ops' = ops \o <<Load(CharacterPath(char), srcSize),
                                Draw(CharacterPath(char), PlaceOffset(srcSize), srcSize)>>
             /\ pc' = "border"
             /\ UNCHANGED buildErr
    /\ UNCHANGED <<req, charID, char, gearLevel, relicLevel, zetas, omicrons, portrait,
                   encErr, encPos, status, contentType, body>>

\* gear border centered on the canvas, or relic border drawn at the origin
BuildBorder ==
    /\ pc = "border"
    /\ IF UsesGearBorder(portrait)
       THEN \/ /\ BuildFail(LoadError(GearPath(portrait.GearLevel)))
               /\ UNCHANGED ops
            \/ \E srcSize \in ImgSizes :
                  /\ ops' = ops \o <<Load(GearPath(portrait.GearLevel), srcSize),
                                     Draw(GearPath(portrait.GearLevel),
                                          CenterOffset(srcSize, canvasSize), srcSize)>>
                  /\ pc' = "level"
                  /\ UNCHANGED buildErr
       ELSE \/ /\ BuildFail(LoadError(RelicPath(char)))
               /\ UNCHANGED ops
            \/ /\ ops' = ops \o <<Load(RelicPath(char), Unsized),
                                  Draw(RelicPath(char), Origin, canvasSize)>>
               /\ pc' = "level"
               /\ UNCHANGED buildErr
    /\ UNCHANGED <<req, charID, char, gearLevel, relicLevel, zetas, omicrons, portrait,
                   encErr, encPos, status, contentType, body>>

BuildLevelBadge ==
    /\ pc = "level"
    /\ \/ /\ BuildFail(LoadError(LevelBadgePath))
          /\ UNCHANGED ops
       \/ /\ ops' = ops \o <<Load(LevelBadgePath, Unsized),
                             Draw(LevelBadgePath, levelBadgePosition, Unsized),
                             Text(levelText)>>
          /\ pc' = "zeta_badge"
          /\ UNCHANGED buildErr
    /\ UNCHANGED <<req, charID, char, gearLevel, relicLevel, zetas, omicrons, portrait,
                   encErr, encPos, status, contentType, body>>

BuildZetaBadge ==
    /\ pc = "zeta_badge"
    /\ IF HasZetaBadge(portrait)
       THEN \/ /\ BuildFail(LoadError(ZetaBadgePath))
               /\ UNCHANGED ops
            \/ /\ ops' = ops \o <<Load(ZetaBadgePath, Unsized),
                                  Draw(ZetaBadgePath, zetaBadgePosition, Unsized),
                                  Text(Itoa(portrait.Zetas))>>
               /\ pc' = "omicron_badge"
               /\ UNCHANGED buildErr
       ELSE /\ pc' = "omicron_badge"
            /\ UNCHANGED <<ops, buildErr>>
    /\ UNCHANGED <<req, charID, char, gearLevel, relicLevel, zetas, omicrons, portrait,
                   encErr, encPos, status, contentType, body>>

\* the omicron badge, then return finalImage, nil
BuildOmicronBadge ==
    /\ pc = "omicron_badge"
    /\ IF HasOmicronBadge(portrait)
       THEN \/ /\ BuildFail(LoadError(OmicronBadgePath))
               /\ UNCHANGED ops
            \/ /\ ops' = ops \o <<Load(OmicronBadgePath, Unsized),
                                  Draw(OmicronBadgePath, omicronBadgePosition, Unsized),
                                  Text(Itoa(portrait.Omicrons))>>
               /\ pc' = "result"
               /\ UNCHANGED buildErr
       ELSE /\ pc' = "result"
            /\ UNCHANGED <<ops, buildErr>>
    /\ UNCHANGED <<req, charID, char, gearLevel, relicLevel, zetas, omicrons, portrait,
                   encErr, encPos, status, contentType, body>>

----------------------------------------------------------------------------
(* createPortraitHandler: the response *)

\* img, err := buildPortrait(...); on success the Content-Type header is set
HandleBuildResult ==
    /\ pc = "result"
    /\ IF buildErr # NoErr
       THEN /\ HttpError(<<"Failed to create portrait: ">> \o buildErr, 500)
            /\ pc' = "done"
       ELSE /\ contentType' = "image/png"
            /\ pc' = "encode"
            /\ UNCHANGED <<status, body>>
    /\ UNCHANGED <<req, charID, char, gearLevel, relicLevel, zetas, omicrons, portrait,
                   buildErr, encErr, encPos, ops>>

\* png.Encode writes its next chunk; the first Write sends the status line 200
\* with the headers set so far
EncodeWrite ==
    /\ pc = "encode"
    /\ encPos <= Len(PngChunks)
    /\ body' = Append(body, [kind |-> "png", msg |-> <<PngChunks[encPos]>>])
    /\ status' = IF status = 0 THEN 200 ELSE status
    /\ encPos' = encPos + 1
    /\ pc' = IF encPos = Len(PngChunks) THEN "done" ELSE "encode"
    /\ UNCHANGED <<req, charID, char, gearLevel, relicLevel, zetas, omicrons, portrait,
                   buildErr, encErr, ops, contentType>>

\* a Write of png.Encode fails; png.Encode returns the error and the handler
\* calls http.Error with 500
EncodeFail ==
    /\ pc = "encode"
    /\ encPos <= Len(PngChunks)
    /\ encErr' = TRUE
    /\ HttpError(<<"Failed to encode image: ", "write", PngChunks[encPos]>>, 500)
    /\ pc' = "done"
    /\ UNCHANGED <<req, charID, char, gearLevel, relicLevel, zetas, omicrons, portrait,
                   buildErr, encPos, ops>>

\* the handler has returned; the server waits for the next request
Finish ==
    /\ pc = "done"
    /\ pc' = "idle"
    /\ req' = NoRequest
    /\ charID' = ""
    /\ char' = NoChar
    /\ gearLevel' = 0 /\ relicLevel' = 0 /\ zetas' = 0 /\ omicrons' = 0
    /\ portrait' = NoPortrait
    /\ buildErr' = NoErr
    /\ encErr' = FALSE
    /\ encPos' = 1
    /\ ops' = <<>>
    /\ status' = 0
    /\ contentType' = ""
    /\ body' = <<>>

Next ==
    \/ ServeHTTP
    \/ CheckMethod
    \/ LookupCharacter
    \/ ParseGearLevel
    \/ ParseRelicLevel
    \/ ParseZetas
    \/ ParseOmicrons
    \/ CallBuildPortrait
    \/ BuildFonts
    \/ BuildCharacter
    \/ BuildBorder
    \/ BuildLevelBadge
    \/ BuildZetaBadge
    \/ BuildOmicronBadge
    \/ HandleBuildResult
    \/ EncodeWrite
    \/ EncodeFail
    \/ Finish

Spec == Init /\ [][Next]_vars

----------------------------------------------------------------------------
(* Vocabulary of the properties: what a request's raw parameters say *)

IsGet == req.method = "GET"

KnownChar == req.char \in DOMAIN supportedCharacters

\* the value is present, non-empty and not a decimal integer
Unparsable(v) == v # Absent /\ v # <<>> /\ Atoi(v).err

\* the integer a value stands for when absent, empty or unparsable count as 0
Lenient(v) == IF v = Absent \/ v = <<>> THEN 0 ELSE Atoi(v).val

GearOk == ~Unparsable(req.gear_level) /\ Lenient(req.gear_level) \in 1..13

RelicOk ==
    /\ ~Unparsable(req.relic_level)
    /\ IF Lenient(req.gear_level) < 13
       THEN Lenient(req.relic_level) = 0
       ELSE Lenient(req.relic_level) \in 1..9

BuildSucceeded == portrait.set /\ buildErr = NoErr /\ pc \in {"result", "encode", "done"}

OnlyMessage(first) == Len(body) = 1 /\ body[1].kind = "text" /\ body[1].msg[1] = first

\* the asset and text of each canvas draw, in order
DrawSteps == LET d == SelectSeq(ops, LAMBDA e : e.op \in {"draw", "text"})
             IN  [i \in 1..Len(d) |-> <<d[i].op, d[i].what>>]

IsPrefix(s, t) == Len(s) <= Len(t) /\ \A i \in 1..Len(s) : s[i] = t[i]

\* at is (container - size) / 2 rounded toward zero, on both axes
TruncCentered(at, size) ==
    \A k \in 1..2 :
        LET d == CanvasSize - size[k]
        IN  IF d % 2 = 0 THEN 2 * at[k] = d
            ELSE IF d > 0 THEN 2 * at[k] = d - 1
            ELSE 2 * at[k] = d + 1

\* the draws whose position comes from placeImageOnCanvas / centerImageOnCanvas
PlacedDraws == {i \in 1..Len(ops) : ops[i].op = "draw" /\ ops[i].what = CharacterPath(char)}

CenteredDraws == {i \in 1..Len(ops) : ops[i].op = "draw" /\ ops[i].what[1] = "assets/gear/"}

----------------------------------------------------------------------------
(* Properties *)

\* C1: whenever the handler hands a portrait request to buildPortrait, its gear
\* level is in 1..13, its relic level is 0 below gear 13 and in 1..9 at gear 13,
\* and its zeta and omicron counts are within 0..max of the character found,
\* whatever the raw query values were.
C1_PortraitRequestValid ==
    portrait.set =>
        /\ portrait.Character \in DOMAIN supportedCharacters
        /\ portrait.GearLevel \in 1..13
        /\ (portrait.GearLevel < 13 => portrait.RelicLevel = 0)
        /\ (portrait.GearLevel = 13 => portrait.RelicLevel \in 1..9)
        /\ portrait.Zetas \in 0..char.maxZetas
        /\ portrait.Omicrons \in 0..char.maxOmicrons
        /\ char = supportedCharacters[portrait.Character]

C1_Witness ==
    /\ portrait.set
    /\ portrait.GearLevel = 13 /\ portrait.RelicLevel = 9
    /\ req.zetas = <<"1", "x">> /\ req.omicrons = <<>>

\* C2: with GET, a known character and a gear level in 1..13, a relic_level that
\* is present and not an integer is rejected at every gear level: the response
\* is 400 and the request never reaches buildPortrait.
C2_UnparsableRelicIs400 ==
    (pc # "idle" /\ IsGet /\ KnownChar /\ GearOk /\ Unparsable(req.relic_level))
        => /\ ~portrait.set
           /\ (pc = "done" => status = 400)

\* C3: a request that failed in font loading, asset loading or PNG encoding ends
\* with status 500 and a plain-text message, and its body holds no PNG bytes.
C3_FailureIs500NoPartialImage ==
    (pc = "done" /\ (buildErr # NoErr \/ encErr)) =>
        /\ status = 500
        /\ \A i \in 1..Len(body) : body[i].kind # "png"
        /\ body # <<>> /\ body[Len(body)].kind = "text"

\* C4: with GET, a known character, valid gear and relic levels: zetas and
\* omicrons count as 0 when absent, empty or non-numeric; a zetas value outside
\* 0..max gives 400 with the zeta message, else an omicrons value outside 0..max
\* gives 400 with the omicron message, else (0 and max included) buildPortrait is
\* invoked with those counts and the response is 200 when nothing fails to load
\* or encode.
C4_ZetasOmicronsValidation ==
    (pc = "done" /\ IsGet /\ KnownChar /\ GearOk /\ RelicOk) =>
        LET z == Lenient(req.zetas)
            o == Lenient(req.omicrons)
            c == supportedCharacters[req.char]
        IN  IF z \notin 0..c.maxZetas
            THEN status = 400 /\ ~portrait.set
                 /\ OnlyMessage("The zeta level must be between 0 and")
            ELSE IF o \notin 0..c.maxOmicrons
            THEN status = 400 /\ ~portrait.set
                 /\ OnlyMessage("The omicron level must be between 0 and")
            ELSE /\ portrait.set
                 /\ portrait.Zetas = z /\ portrait.Omicrons = o
                 /\ (buildErr = NoErr /\ ~encErr => status = 200)

C4_Witness ==
    /\ pc = "done" /\ IsGet /\ KnownChar /\ GearOk /\ RelicOk
    /\ req.zetas = <<"3">> /\ req.omicrons = <<"0", "1">>
    /\ portrait.Zetas = 3 /\ portrait.Omicrons = 1
    /\ status = 200

\* C5: with GET, a known character, a gear level in 1..13 and a relic_level that
\* reads as an integer r (0 when absent or empty): if gear < 13 and r # 0, or
\* gear = 13 and r outside 1..9, buildPortrait is never invoked and the response
\* is 400.
C5_RelicRejected ==
    (pc # "idle" /\ IsGet /\ KnownChar /\ GearOk /\ ~Unparsable(req.relic_level)
       /\ LET g == Lenient(req.gear_level)
              r == Lenient(req.relic_level)
          IN  (g < 13 /\ r # 0) \/ (g = 13 /\ r \notin 1..9))
        => /\ ~portrait.set
           /\ pc \in {"method", "lookup", "gear", "relic", "done"}
           /\ (pc = "done" => status = 400)

C5_Witness ==
    /\ pc = "done" /\ IsGet /\ KnownChar
    /\ req.gear_level = <<"1">> /\ req.relic_level = <<"-", "1">>
    /\ status = 400
    /\ OnlyMessage("The relic_level should not be provided if gear_level is not 13")

\* C6: with GET and a known character, a gear_level that is missing, empty,
\* non-numeric or outside 1..13 gives 400 whatever the other parameters are, and
\* buildPortrait is never invoked.
C6_GearRejected ==
    (pc # "idle" /\ IsGet /\ KnownChar /\ ~GearOk)
        => /\ ~portrait.set
           /\ pc \in {"method", "lookup", "gear", "done"}
           /\ (pc = "done" =>
                  status = 400 /\ OnlyMessage("The gear_level must be between 1 and 13"))

C6_Witness ==
    /\ pc = "done" /\ IsGet /\ KnownChar
    /\ req.gear_level = <<"0">> /\ req.relic_level = <<"1">> /\ req.zetas = <<"4">>
    /\ status = 400

\* C7: a request whose method is not GET ends in 405 whatever its query is: no
\* parameter is read or validated, no 400 is produced and buildPortrait is
\* never invoked.
C7_NonGetIs405 ==
    (pc # "idle" /\ ~IsGet)
        => /\ pc \in {"method", "done"}
           /\ ~portrait.set /\ ops = <<>>
           /\ charID = "" /\ char = NoChar
           /\ (pc = "method" => status = 0 /\ body = <<>>)
           /\ (pc = "done" => status = 405 /\ OnlyMessage("Only GET method is allowed"))

C7_Witness ==
    /\ pc = "done" /\ req.method = "POST" /\ status = 405
    /\ KnownChar /\ req.gear_level = <<"x">>

\* C8: a GET request whose char is absent or not in the catalog ends in 400
\* naming that character, whatever the other parameters are: nothing after the
\* lookup is reached.
C8_UnknownCharIs400 ==
    (pc # "idle" /\ IsGet /\ ~KnownChar)
        => /\ pc \in {"method", "lookup", "done"}
           /\ ~portrait.set /\ ops = <<>>
           /\ (pc = "done" =>
                  /\ status = 400
                  /\ body = <<[kind |-> "text",
                               msg |-> <<"Character is not supported by this API",
                                         IF req.char = AbsentChar THEN "" ELSE req.char>>]>>)

C8_Witness ==
    /\ pc = "done" /\ IsGet /\ req.char = AbsentChar /\ status = 400
    /\ req.gear_level = <<"1", "4">> /\ req.zetas = <<"-", "1">>

\* the draws a successful build makes for portrait p of character c, in order
ExpectedDraws(p, c) ==
    <<<<"draw", CharacterPath(c)>>>>
    \o <<<<"draw", IF p.GearLevel < 13 THEN GearPath(p.GearLevel) ELSE RelicPath(c)>>>>
    \o <<<<"draw", LevelBadgePath>>, <<"text", levelText>>>>
    \o (IF p.Zetas > 0
        THEN <<<<"draw", ZetaBadgePath>>, <<"text", Itoa(p.Zetas)>>>> ELSE <<>>)
    \o (IF p.Omicrons > 0
        THEN <<<<"draw", OmicronBadgePath>>, <<"text", Itoa(p.Omicrons)>>>> ELSE <<>>)

\* C9: the draws of buildPortrait happen in one fixed order: character image
\* centered, then the border (gear border centered below gear 13, else the relic
\* border at the canvas origin), level badge, level text, zeta badge and count
\* iff zetas > 0, omicron badge and count iff omicrons > 0; a successful build
\* has made exactly these draws; a badge asset is neither loaded nor drawn when
\* its count is 0.
C9_DrawOrder ==
    portrait.set =>
        /\ IsPrefix(DrawSteps, ExpectedDraws(portrait, char))
        /\ (BuildSucceeded => DrawSteps = ExpectedDraws(portrait, char))
        /\ \A i \in 1..Len(ops) :
              /\ (ops[i].what = ZetaBadgePath => portrait.Zetas > 0)
              /\ (ops[i].what = OmicronBadgePath => portrait.Omicrons > 0)
              /\ (ops[i].op = "draw" /\ ops[i].what = CharacterPath(char)
                    => TruncCentered(ops[i].at, ops[i].size))
              /\ (ops[i].op = "draw" /\ ops[i].what = RelicPath(char)
                    => portrait.GearLevel = 13 /\ ops[i].at = Origin)
              /\ (ops[i].op = "draw" /\ ops[i].what[1] = "assets/gear/"
                    => portrait.GearLevel < 13 /\ TruncCentered(ops[i].at, ops[i].size))

C9_Witness ==
    /\ pc = "done" /\ status = 200 /\ BuildSucceeded /\ Len(body) = Len(PngChunks)
    /\ portrait.GearLevel = 13 /\ portrait.Zetas = 0 /\ portrait.Omicrons = 1
    /\ Len(DrawSteps) = 6

\* C10 as stated: the centering offset of placeImageOnCanvas and of
\* centerImageOnCanvas is the floor of (container - content) / 2 on each axis,
\* also for sources larger than the canvas.
C10_OffsetIsFloor ==
    \A i \in PlacedDraws \cup CenteredDraws :
        \A k \in 1..2 : ops[i].at[k] = (CanvasSize - ops[i].size[k]) \div 2

\* C10 amended: the centering offset of placeImageOnCanvas and of
\* centerImageOnCanvas is (container - content) / 2 rounded toward zero on each
\* axis independently (the floor only when the difference is non-negative or
\* even), and the two functions give the same offset for the same sizes.
C10_OffsetTruncates ==
    /\ \A i \in PlacedDraws \cup CenteredDraws : TruncCentered(ops[i].at, ops[i].size)
    /\ \A i \in PlacedDraws : \A j \in CenteredDraws :
          \A k \in 1..2 : ops[i].size[k] = ops[j].size[k] => ops[i].at[k] = ops[j].at[k]

C10_Witness ==
    /\ \E i \in PlacedDraws :
          ops[i].size = <<CanvasSize + 1, CanvasSize - 1>> /\ ops[i].at = <<0, 0>>
    /\ \E j \in CenteredDraws :
          ops[j].size = <<CanvasSize + 1, CanvasSize>> /\ ops[j].at = <<0, 0>>

====
